---- MODULE Spec2Model ----
(***************************************************************************)
(* Model of src/app.js (class AutoIndex, first definition, lines 36-324):  *)
(* a single-page renderer that maps the location to a page configuration,  *)
(* fetches it and renders a buttons screen or an image/detail screen.      *)
(*                                                                         *)
(* Strings are sequences of symbols.  A symbol is a single character or a  *)
(* word that no operation of the program splits ("demo", "image", ...).    *)
(* JavaScript's undefined, null, NaN and numbers are tagged tuples.        *)
(***************************************************************************)
EXTENDS Integers, Sequences, FiniteSets, TLC

UNDEFINED == <<"undefined">>
NULL == <<"null">>
NaN == <<"NaN">>
Num(n) == <<"num", n>>
NumVal(v) == v[2]
IsNum(v) == Len(v) = 2 /\ v[1] = "num"

\* JavaScript truthiness of a string-or-absent value: undefined, null and ''
\* are falsy.
Truthy(v) == v # UNDEFINED /\ v # NULL /\ v # <<>>
\* a || b
Or(a, b) == IF Truthy(a) THEN a ELSE b
\* a ?? b
Nullish(a, b) == IF a = UNDEFINED \/ a = NULL THEN b ELSE a

(***************************************************************************)
(* String helpers                                                          *)
(***************************************************************************)
Drop(s, n) == SubSeq(s, n + 1, Len(s))
Take(s, n) == SubSeq(s, 1, n)

StartsWith(s, p) == Len(p) <= Len(s) /\ Take(s, Len(p)) = p

\* index of the first occurrence of symbol c in s, 0 when there is none
RECURSIVE IndexOf(_, _)
IndexOf(s, c) ==
    IF s = <<>> THEN 0
    ELSE IF Head(s) = c THEN 1
    ELSE LET r == IndexOf(Tail(s), c) IN IF r = 0 THEN 0 ELSE r + 1

\* String.prototype.split(sep) for a one-symbol separator
RECURSIVE Split(_, _)
Split(s, sep) ==
    LET i == IndexOf(s, sep)
    IN  IF i = 0 THEN <<s>>
        ELSE <<Take(s, i - 1)>> \o Split(Drop(s, i), sep)

\* Array.prototype.join(sep)
RECURSIVE Join(_, _)
Join(parts, sep) ==
    IF parts = <<>> THEN <<>>
    ELSE IF Len(parts) = 1 THEN parts[1]
    ELSE parts[1] \o sep \o Join(Tail(parts), sep)

\* String.prototype.replace(/pat/, rep), the pattern without the g flag: the
\* first match only
RECURSIVE ReplaceAllMut(_, _, _)
ReplaceAllMut(s, pat, rep) ==
    IF s = <<>> \/ pat = <<>> THEN s
    ELSE IF StartsWith(s, pat) THEN rep \o Drop(s, Len(pat))
    ELSE <<Head(s)>> \o ReplaceAllMut(Tail(s), pat, rep)

\* String.prototype.replace(/pat/g, rep) for a literal pattern: every
\* non-overlapping match, left to right; inserted text is not rescanned.
RECURSIVE ReplaceAll(_, _, _)
ReplaceAll(s, pat, rep) ==
    IF s = <<>> \/ pat = <<>> THEN s
    ELSE IF StartsWith(s, pat) THEN rep \o ReplaceAll(Drop(s, Len(pat)), pat, rep)
    ELSE <<Head(s)>> \o ReplaceAll(Tail(s), pat, rep)

(***************************************************************************)
(* Numbers in text                                                         *)
(***************************************************************************)
Digits == {"0", "1", "2", "3", "4", "5", "6", "7", "8", "9"}

DigitVal(c) ==
    CASE c = "0" -> 0 [] c = "1" -> 1 [] c = "2" -> 2 [] c = "3" -> 3
      [] c = "4" -> 4 [] c = "5" -> 5 [] c = "6" -> 6 [] c = "7" -> 7
      [] c = "8" -> 8 [] c = "9" -> 9

\* length of the longest prefix of s made of digits
RECURSIVE DigitPrefix(_)
DigitPrefix(s) ==
    IF s # <<>> /\ Head(s) \in Digits THEN 1 + DigitPrefix(Tail(s)) ELSE 0

RECURSIVE DecimalValue(_)
DecimalValue(s) ==
    IF s = <<>> THEN 0
    ELSE DecimalValue(Take(s, Len(s) - 1)) * 10 + DigitVal(s[Len(s)])

\* parseInt(text): an optional sign, then the longest run of digits; NaN
\* when there is no digit.  (Values stay far below 2^53, where parseInt is
\* exact.)
parseInt(s) ==
    LET neg  == s # <<>> /\ Head(s) = "-"
        body == IF s # <<>> /\ Head(s) \in {"-", "+"} THEN Tail(s) ELSE s
        n    == DigitPrefix(body)
    IN  IF n = 0 THEN NaN
        ELSE Num((IF neg THEN -1 ELSE 1) * DecimalValue(Take(body, n)))

\* String(number), as a template literal prints it
RECURSIVE DecimalText(_)
DecimalText(n) ==
    LET d == <<"0", "1", "2", "3", "4", "5", "6", "7", "8", "9">>
    IN  IF n < 10 THEN <<d[n + 1]>>
        ELSE DecimalText(n \div 10) \o <<d[(n % 10) + 1]>>

NumberText(v) ==
    IF v = NaN THEN <<"NaN">>
    ELSE IF NumVal(v) < 0 THEN <<"-">> \o DecimalText(0 - NumVal(v))
    ELSE DecimalText(NumVal(v))

(***************************************************************************)
(* Bounds and input alphabets                                              *)
(***************************************************************************)
\* path segments per generated location
MaxSegs == 3
\* symbols in the index segment of a generated image route
MaxIndexLen == 2

SeqsUpTo(S, n) == UNION {[1..k -> S] : k \in 0..n}

demo == <<"demo">>
gone == <<"gone">>
indexHtml == <<"index.html">>

\* segments of the generated locations
SegSet == {<<>>, demo, <<"image">>, indexHtml, <<"1">>}
PageSegs == {demo, gone, indexHtml}
IndexSegs == SeqsUpTo({"0", "1", "a", "-"}, MaxIndexLen)

PathOf(segs) == <<"/">> \o Join(segs, <<"/">>)

Paths ==
    {PathOf(segs) : segs \in (SeqsUpTo(SegSet, MaxSegs) \ {<<>>})}
    \cup {PathOf(<<p, <<"image">>, i>>) : p \in PageSegs, i \in IndexSegs}

\* raw query strings of the generated locations
Queries ==
    { <<>>,
      <<"ref", "=", "abc">>,
      <<"f", "=", "C:", "\\", "dir">>,
      <<"a", "=", "1", "&", "amp;", "b", "=", "2">> }

SearchOf(q) == IF q = <<>> THEN <<>> ELSE <<"?">> \o q

(***************************************************************************)
(* Configuration documents (config.json, lines 11-28)                      *)
(***************************************************************************)
Button(text, link, image, bg, fg) ==
    [text |-> text, link |-> link, image |-> image,
     backgroundColor |-> bg, textColor |-> fg]

\* config.buttons: absent from the document, or an array
NoButtons == [defined |-> FALSE, items |-> <<>>]
Buttons(items) == [defined |-> TRUE, items |-> items]

Config(title, fontFamily, fontUrl, buttons) ==
    [title |-> title, fontFamily |-> fontFamily, fontUrl |-> fontUrl,
     buttonBackgroundColor |-> UNDEFINED,
     pageButtonBackgroundColor |-> UNDEFINED,
     imageButtonBackgroundColor |-> UNDEFINED,
     buttonTextColor |-> UNDEFINED,
     pageButtonTextColor |-> UNDEFINED,
     imageButtonTextColor |-> UNDEFINED,
     buttons |-> buttons]

Play == Button(<<"Play">>, <<"https:", "//x.com?r=", "{", "ref", "}">>,
               <<"images/a.jpg">>, UNDEFINED, UNDEFINED)
Shop == Button(<<"Shop">>, <<"https:", "//y.com?", "{", "query", "}">>,
               UNDEFINED, <<"gold">>, UNDEFINED)

NotoFamily == <<"Noto", " ", "Sans", " ", "SC", ",", " ", "sans-serif">>

CfgTwo == [Config(<<"Demo">>, NotoFamily, UNDEFINED, Buttons(<<Play, Shop>>))
             EXCEPT !.buttonBackgroundColor = <<"navy">>]
CfgOne == Config(<<"Demo">>, UNDEFINED, UNDEFINED, Buttons(<<Play>>))
CfgEmpty == Config(UNDEFINED, UNDEFINED, UNDEFINED, Buttons(<<>>))
CfgNoButtons ==
    Config(<<"Demo">>, UNDEFINED, <<"https:", "//cdn/font.css">>, NoButtons)

\* What the static host answers for /pages/demo/config.json.
\*   net:    the transport delivered a response (fetch resolves)
\*   ok:     response.ok
\*   parses: response.json() resolves, to json
Response(net, ok, parses, json) ==
    [net |-> net, ok |-> ok, parses |-> parses, json |-> json]

NotFoundResponse == Response(TRUE, FALSE, FALSE, CfgEmpty)

DemoResponses ==
    { Response(TRUE, TRUE, TRUE, CfgTwo),
      Response(TRUE, TRUE, TRUE, CfgOne),
      Response(TRUE, TRUE, TRUE, CfgEmpty),
      Response(TRUE, TRUE, TRUE, CfgNoButtons),
      Response(TRUE, TRUE, FALSE, CfgEmpty),
      Response(TRUE, FALSE, TRUE, CfgOne),
      Response(FALSE, FALSE, FALSE, CfgEmpty) }

(***************************************************************************)
(* Location                                                                *)
(***************************************************************************)
\* The pathname and search the browser derives from a path-absolute URL
\* string assigned to window.location.href or given to
\* history.replaceState: the query starts at the first "?", and an empty
\* query gives search ''.
LocationOf(url) ==
    LET i == IndexOf(url, "?")
    IN  IF i = 0 THEN [pathname |-> url, search |-> <<>>]
        ELSE [pathname |-> Take(url, i - 1),
              search |-> IF i = Len(url) THEN <<>> ELSE Drop(url, i - 1)]

\* length of the longest prefix of s without "/": what [^\/]+ consumes
RECURSIVE SegmentPrefix(_)
SegmentPrefix(s) ==
    IF s # <<>> /\ Head(s) # "/" THEN 1 + SegmentPrefix(Tail(s)) ELSE 0

NoMatch == [ok |-> FALSE, m1 |-> UNDEFINED, m2 |-> UNDEFINED]

\* the index group of the looser pattern ^\/([^\/]+)(?:\/image\/([^\/]+))?$
RouteIndexLoose(d) == d # <<>> /\ SegmentPrefix(d) = Len(d)

\* the index group (\d+) of the pattern, anchored by $
RouteIndex(d) == d # <<>> /\ DigitPrefix(d) = Len(d)

\* path.match(/^\/([^\/]+)(?:\/image\/(\d+))?$/)
RouteMatch(path) ==
    IF path = <<>> \/ Head(path) # "/" THEN NoMatch
    ELSE LET n    == SegmentPrefix(Tail(path))
             seg  == SubSeq(path, 2, n + 1)
             rest == Drop(path, n + 1)
         IN  IF n = 0 THEN NoMatch
             ELSE IF rest = <<>>
                  THEN [ok |-> TRUE, m1 |-> seg, m2 |-> UNDEFINED]
             ELSE IF StartsWith(rest, <<"/", "image", "/">>)
                     /\ RouteIndex(Drop(rest, 3))
                  THEN [ok |-> TRUE, m1 |-> seg, m2 |-> Drop(rest, 3)]
             ELSE NoMatch

\* parseURL with the index.html guard left out
parseURLNoGuard(path, srch) ==
    LET queryString == Drop(srch, 1)
        match == RouteMatch(path)
    IN  IF ~match.ok
        THEN [pagePath |-> NULL, imageIndex |-> NULL, queryString |-> queryString]
        ELSE [pagePath |-> match.m1,
              imageIndex |-> IF match.m2 # UNDEFINED THEN parseInt(match.m2) ELSE NULL,
              queryString |-> queryString]

parseURL(path, srch) ==
    LET queryString == Drop(srch, 1)
        match == RouteMatch(path)
    IN  IF ~match.ok \/ match.m1 = indexHtml
        THEN [pagePath |-> NULL, imageIndex |-> NULL, queryString |-> queryString]
        ELSE [pagePath |-> match.m1,
              imageIndex |-> IF match.m2 # UNDEFINED THEN parseInt(match.m2) ELSE NULL,
              queryString |-> queryString]

(***************************************************************************)
(* Resources, fonts, placeholders, styles                                  *)
(***************************************************************************)
basePath == <<"/", "pages">>

ConfigUrl(pagePath) == basePath \o <<"/">> \o pagePath \o <<"/", "config.json">>

IsHttp(resource) == resource # <<>> /\ Head(resource) \in {"http:", "https:"}

getResourcePath(pagePath, resource) ==
    IF ~Truthy(resource) THEN NULL
    ELSE IF IsHttp(resource) THEN resource
    ELSE basePath \o <<"/">> \o pagePath \o <<"/">> \o resource

\* String.prototype.trim over the space symbol
RECURSIVE Trim(_)
Trim(s) ==
    IF s = <<>> THEN s
    ELSE IF Head(s) = " " THEN Trim(Tail(s))
    ELSE IF s[Len(s)] = " " THEN Trim(Take(s, Len(s) - 1))
    ELSE s

\* encodeURIComponent: of the symbols used in font families only the space
\* is escaped
encodeURIComponent(s) == [i \in 1..Len(s) |-> IF s[i] = " " THEN "%20" ELSE s[i]]

getFontUrl(config) ==
    IF Truthy(config.fontUrl) THEN config.fontUrl
    ELSE IF ~Truthy(config.fontFamily) THEN NULL
    ELSE LET familyName == Trim(Split(config.fontFamily, ",")[1])
         IN  IF ~Truthy(familyName) THEN NULL
             ELSE <<"https:", "//fonts.googleapis.com/css2?family=">>
                  \o encodeURIComponent(familyName)
                  \o <<":wght@400;500;600;700&display=swap">>

\* The href property of a link element whose href attribute is u: the
\* attribute resolved against the document's URL ('' without attribute).
LinkHref(u) ==
    IF u = <<>> THEN <<>>
    ELSE IF IsHttp(u) THEN u
    ELSE <<"https:", "//site/">> \o u

\* ensureFont that appends a link element on every call
ensureFontAppend(head, config) ==
    LET fontUrl == getFontUrl(config)
    IN  IF ~Truthy(fontUrl) THEN head ELSE Append(head, fontUrl)

\* head: the href attributes of the link[data-custom-font] elements of the
\* document, in document order.
ensureFont(head, config) ==
    LET fontUrl == getFontUrl(config)
    IN  IF ~Truthy(fontUrl) THEN head
        ELSE LET withLink == IF head = <<>> THEN <<(<<>>)>> ELSE head
             IN  IF LinkHref(withLink[1]) # fontUrl
                 THEN [withLink EXCEPT ![1] = fontUrl]
                 ELSE withLink

\* application/x-www-form-urlencoded decoding of one symbol
FormDecodeSym(c) ==
    CASE c = "+" -> " "
      [] c = "%20" -> " "
      [] c = "%7B" -> "{"
      [] c = "%7D" -> "}"
      [] OTHER -> c

FormDecode(s) == [i \in 1..Len(s) |-> FormDecodeSym(s[i])]

NonEmpty(piece) == piece # <<>>

\* new URLSearchParams(queryString): the list of decoded pairs, in order
URLSearchParams(queryString) ==
    LET q == IF queryString # <<>> /\ Head(queryString) = "?"
             THEN Tail(queryString) ELSE queryString
        pieces == SelectSeq(Split(q, "&"), NonEmpty)
        pair(piece) ==
            LET i == IndexOf(piece, "=")
            IN  IF i = 0 THEN [key |-> FormDecode(piece), value |-> <<>>]
                ELSE [key |-> FormDecode(Take(piece, i - 1)),
                      value |-> FormDecode(Drop(piece, i))]
    IN  [i \in 1..Len(pieces) |-> pair(pieces[i])]

\* params.forEach((value, key) => result = result.replace(/\{key\}/g, value))
RECURSIVE ReplaceParams(_, _)
ReplaceParams(result, params) ==
    IF params = <<>> THEN result
    ELSE ReplaceParams(
             ReplaceAll(result, <<"{">> \o Head(params).key \o <<"}">>,
                        Head(params).value),
             Tail(params))

replaceQueryPlaceholder(url, queryString) ==
    LET result == ReplaceAll(url, <<"{", "query", "}">>, Or(queryString, <<>>))
    IN  IF Truthy(queryString)
        THEN ReplaceParams(result, URLSearchParams(queryString))
        ELSE result

buildStyleVars(backgroundColor, textColor) ==
    LET styleParts ==
            (IF Truthy(backgroundColor)
             THEN <<(<<"--btn-bg: ">> \o backgroundColor)>> ELSE <<>>)
            \o (IF Truthy(textColor)
                THEN <<(<<"--btn-text: ">> \o textColor)>> ELSE <<>>)
    IN  IF Len(styleParts) > 0
        THEN <<" style=\"">> \o Join(styleParts, <<"; ">>) \o <<"\"">>
        ELSE <<>>

(***************************************************************************)
(* Rendering.  A document is [view, title, head, listeners, loadListener,  *)
(* timers, threw]: the content of #app, document.title, the custom font    *)
(* links, the window listeners, whether the image has a load listener, the *)
(* pending setTimeout(updateState, 50) calls, the closure variable ticking *)
(* of setupImageScrollBehavior, the animation-frame callbacks requested    *)
(* and not yet run, and whether the rendering code threw.                  *)
(* Literal texts of the source that are not ASCII are written in English:  *)
(*   "PageNotExist" (line 64), "CannotFindPage: " (line 64),               *)
(*   "PageMissing" (line 50), "ImageNotExist" (line 225),                  *)
(*   "NoButtonAtIndex " ... " ." (line 225).                               *)
(***************************************************************************)
BlankView ==
    [kind |-> "none", heading |-> <<>>, message |-> <<>>, cards |-> <<>>,
     back |-> <<>>, img |-> NULL, href |-> <<>>, ctaStyle |-> <<>>,
     ctaClasses |-> {}]

InitialTitle == <<"Auto Index">>

BlankDoc ==
    [view |-> BlankView, title |-> InitialTitle, head |-> <<>>,
     listeners |-> {}, loadListener |-> FALSE, timers |-> 0,
     ticking |-> FALSE, frames |-> 0, threw |-> FALSE]

updatePageMeta(current, title) == IF Truthy(title) THEN title ELSE current

renderError(doc, title, message) ==
    [doc EXCEPT !.title = updatePageMeta(doc.title, title),
                !.view = [BlankView EXCEPT !.kind = "error",
                                           !.heading = title,
                                           !.message = message]]

\* the colours of one card of the buttons screen, lines 166-167 and 190-192
pageButtonStyleFlipped(config, btn) ==
    buildStyleVars(
        Nullish(Or(config.pageButtonBackgroundColor, config.buttonBackgroundColor),
                btn.backgroundColor),
        Nullish(btn.textColor,
                Or(config.pageButtonTextColor, config.buttonTextColor)))

pageButtonStyle(config, btn) ==
    buildStyleVars(
        Nullish(btn.backgroundColor,
                Or(config.pageButtonBackgroundColor, config.buttonBackgroundColor)),
        Nullish(btn.textColor,
                Or(config.pageButtonTextColor, config.buttonTextColor)))

\* the colours of the call-to-action of the detail screen, lines 236-244
imageButtonStyle(config, button) ==
    buildStyleVars(
        Nullish(button.backgroundColor,
                Or(config.imageButtonBackgroundColor, config.buttonBackgroundColor)),
        Nullish(button.textColor,
                Or(config.imageButtonTextColor, config.buttonTextColor)))

WithQuery(path, queryString) ==
    path \o (IF Truthy(queryString) THEN <<"?">> \o queryString ELSE <<>>)

\* Reading config.buttons.map of a document without buttons throws a
\* TypeError, after ensureFont and updatePageMeta have run.
renderButtonsPage(doc, pagePath, config, queryString) ==
    LET head1  == ensureFont(doc.head, config)
        title1 == updatePageMeta(doc.title, Or(config.title, pagePath))
        items  == config.buttons.items
        card(idx) ==
            [index |-> DecimalText(idx),
             text  |-> items[idx + 1].text,
             style |-> pageButtonStyle(config, items[idx + 1])]
    IN  IF ~config.buttons.defined
        THEN [doc EXCEPT !.head = head1, !.title = title1, !.threw = TRUE]
        ELSE [doc EXCEPT
                !.head = head1,
                !.title = title1,
                !.view = [BlankView EXCEPT
                            !.kind = "buttons",
                            !.heading = Or(config.title, pagePath),
                            !.cards = [i \in 1..Len(items) |-> card(i - 1)]]]

\* setupImageScrollBehavior up to its return: ticking, the two window
\* listeners, and either a load listener on the image or the 50 ms timer.
setupImageScrollBehavior(doc, complete) ==
    [doc EXCEPT
       !.ticking = FALSE,
       !.listeners = {"scroll", "resize"},
       !.loadListener = (doc.view.img # NULL /\ ~complete),
       !.timers = IF doc.view.img # NULL /\ ~complete THEN 0 ELSE 1]

\* config.buttons[imageIndex] of an array is a button only when the index
\* is an integer within the array, and undefined otherwise
HasButton(items, imageIndex) ==
    IsNum(imageIndex) /\ NumVal(imageIndex) >= 0
    /\ NumVal(imageIndex) < Len(items)

\* the guard of line 224 left out
NotButtonNever(items, imageIndex) == FALSE

\* !button, line 224
NotButton(items, imageIndex) == ~HasButton(items, imageIndex)

\* complete: image.complete when setupImageScrollBehavior reads it
renderImagePage(doc, pagePath, config, imageIndex, queryString, complete) ==
    IF ~config.buttons.defined THEN [doc EXCEPT !.threw = TRUE]
    ELSE IF NotButton(config.buttons.items, imageIndex)
    THEN renderError(doc, <<"ImageNotExist">>,
                     <<"NoButtonAtIndex ">> \o NumberText(imageIndex) \o <<" .">>)
    \* button.image of undefined is a TypeError
    ELSE IF ~HasButton(config.buttons.items, imageIndex)
    THEN [doc EXCEPT !.threw = TRUE]
    ELSE
    LET button     == config.buttons.items[NumVal(imageIndex) + 1]
        imageUrl   == getResourcePath(pagePath, button.image)
        finalLink  == replaceQueryPlaceholder(button.link, queryString)
        backUrl    == WithQuery(<<"/">> \o pagePath, queryString)
        pageTitle  == Or(config.title, pagePath)
        imageTitle == IF Truthy(button.text)
                      THEN button.text \o <<" - ">> \o pageTitle
                      ELSE pageTitle
        rendered ==
            [doc EXCEPT
               !.title = updatePageMeta(doc.title, imageTitle),
               !.head = ensureFont(doc.head, config),
               !.view = [BlankView EXCEPT
                           !.kind = "image",
                           !.heading = button.text,
                           !.back = <<"window.location.href='">> \o backUrl \o <<"'">>,
                           !.img = imageUrl,
                           !.href = finalLink,
                           !.ctaStyle = imageButtonStyle(config, button),
                           !.ctaClasses = {"is-compact"}]]
    IN  setupImageScrollBehavior(rendered, complete)

\* loadConfig without the response.ok check of lines 98-100
loadConfigFailsNoStatus(response) == ~response.net \/ ~response.parses

\* loadConfig: throws unless the fetch resolves with an ok response whose
\* body parses
loadConfigFails(response) == ~response.net \/ ~response.ok \/ ~response.parses

\* the catch block of init, lines 62-65
initCatch(doc, pagePath) ==
    renderError([doc EXCEPT !.threw = FALSE],
                <<"PageNotExist">>, <<"CannotFindPage: ">> \o pagePath)

\* init from the resumption after await to its end, lines 55-65
initAfterFetch(doc, response, nav, complete) ==
    IF loadConfigFails(response) THEN initCatch(doc, nav.pagePath)
    ELSE LET r == IF nav.imageIndex # NULL
                  THEN renderImagePage(doc, nav.pagePath, response.json,
                                       nav.imageIndex, nav.queryString, complete)
                  ELSE renderButtonsPage(doc, nav.pagePath, response.json,
                                         nav.queryString)
         IN  IF r.threw THEN initCatch(r, nav.pagePath) ELSE r

(***************************************************************************)
(* The back control: its onclick attribute goes through the HTML parser    *)
(* (innerHTML) and is then compiled as JavaScript.                         *)
(***************************************************************************)
\* character references of an attribute value; of those only &amp; can be
\* written with the symbols used here
HtmlAttrDecode(s) == ReplaceAll(s, <<"&", "amp;">>, <<"&">>)

\* The value of a single-quoted string literal whose text after the opening
\* quote is s, which must end the handler: a backslash escapes the symbol
\* after it (none of the symbols used here starts a special escape), the
\* first unescaped quote ends the literal.  ok is FALSE when the handler
\* does not compile.
RECURSIVE JsStringLiteral(_)
JsStringLiteral(s) ==
    IF s = <<>> THEN [ok |-> FALSE, value |-> <<>>]
    ELSE IF Head(s) = "'" THEN [ok |-> Tail(s) = <<>>, value |-> <<>>]
    ELSE IF Head(s) = "\\"
    THEN IF Len(s) < 2 THEN [ok |-> FALSE, value |-> <<>>]
         ELSE LET r == JsStringLiteral(Drop(s, 2))
              IN  [ok |-> r.ok, value |-> <<s[2]>> \o r.value]
    ELSE LET r == JsStringLiteral(Tail(s))
         IN  [ok |-> r.ok, value |-> <<Head(s)>> \o r.value]

\* the URL the handler window.location.href='...' assigns
BackTarget(attr) ==
    LET code == HtmlAttrDecode(attr)
    IN  IF code # <<>> /\ Head(code) = "window.location.href='"
        THEN JsStringLiteral(Tail(code))
        ELSE [ok |-> FALSE, value |-> <<>>]

(***************************************************************************)
(* State                                                                   *)
(***************************************************************************)
VARIABLES
    pathname,       \* window.location.pathname
    search,         \* window.location.search
    redirect_path,  \* sessionStorage item 'redirect_path', NULL when unset
    server,         \* the host's answer for the demo page's config.json
    pc,             \* "start": before DOMContentLoaded; "fetching": init
                    \* suspended in await; "done": init has returned
    nav,            \* init's pagePath, imageIndex, queryString
    fetches,        \* URLs this document has requested with fetch
    doc,            \* the document, see Rendering
    lastEvent,      \* what led to this document: a direct visit ("entry"),
                    \* the not-found page's forward ("redirect"), a click
                    \* ("card", "back", "home"), or the event handled last
    win,            \* the window: scroll offset, viewport height, height of
                    \* the document element, and the detail image's status
    call,           \* arguments of the function under study (function
    ret             \* specifications only) and its result

vars == <<pathname, search, redirect_path, server, pc, nav, fetches, doc,
          lastEvent, win, call, ret>>

NoNav == [pagePath |-> NULL, imageIndex |-> NULL, queryString |-> <<>>]
\* image.complete as setupImageScrollBehavior reads it, line 296
imageStatus(view, complete) ==
    IF view.kind # "image" \/ view.img = NULL THEN "none"
    ELSE IF complete THEN "complete" ELSE "loading"

\* the window of a document that has rendered nothing yet
ViewportHeight == 100
BlankWin ==
    [scrollY |-> 0, innerHeight |-> ViewportHeight,
     scrollHeight |-> ViewportHeight, image |-> "none"]

NoCall == [fn |-> "none"]
NoRet == [done |-> FALSE]

\* what a stale or fresh redirect_path item may hold
Redirects ==
    { <<>>,
      <<"/", "demo", "?", "ref", "=", "abc">>,
      <<"/", "demo", "/", "image", "/", "1">>,
      <<"/", "gone", "/", "x">> }

Init ==
    /\ pc = "start"
    /\ server \in DemoResponses
    /\ \/ /\ redirect_path = NULL
          /\ pathname \in Paths
          /\ search \in {SearchOf(q) : q \in Queries}
       \/ /\ redirect_path \in Redirects
          /\ pathname = <<"/">>
          /\ search = <<>>
    /\ nav = NoNav
    /\ fetches = <<>>
    /\ doc = BlankDoc
    /\ lastEvent = [via |-> IF redirect_path = NULL THEN "entry" ELSE "redirect",
                    index |-> <<>>]
    /\ win = BlankWin
    /\ call = NoCall
    /\ ret = NoRet

ServerResponse(url) ==
    IF url = ConfigUrl(demo) THEN server ELSE NotFoundResponse

\* handleRedirect without the replaceState call of line 74
handleRedirectNoRewrite == [pathname |-> pathname, search |-> search]

\* handleRedirect: the location after it
handleRedirect ==
    IF Truthy(redirect_path) THEN LocationOf(redirect_path)
    ELSE [pathname |-> pathname, search |-> search]

\* DOMContentLoaded: new AutoIndex(), init up to its first await or return
DOMContentLoaded ==
    /\ pc = "start"
    /\ LET loc == handleRedirect
           r   == parseURL(loc.pathname, loc.search)
       IN  /\ pathname' = loc.pathname
           /\ search' = loc.search
           /\ redirect_path' = IF Truthy(redirect_path) THEN NULL ELSE redirect_path
           /\ nav' = r
           /\ IF ~Truthy(r.pagePath)
              THEN /\ doc' = renderError(doc, <<"404">>, <<"PageMissing">>)
                   /\ fetches' = fetches
                   /\ pc' = "done"
              ELSE /\ fetches' = Append(fetches, ConfigUrl(r.pagePath))
                   /\ doc' = doc
                   /\ pc' = "fetching"
    /\ UNCHANGED <<server, lastEvent, win, call, ret>>

\* the fetch settles and init runs to its end
FetchSettled ==
    /\ pc = "fetching"
    /\ \E complete \in BOOLEAN :
          /\ doc' = initAfterFetch(doc, ServerResponse(fetches[Len(fetches)]),
                                   nav, complete)
          /\ win' = [win EXCEPT !.image = imageStatus(doc'.view, complete)]
    /\ pc' = "done"
    /\ UNCHANGED <<pathname, search, redirect_path, server, nav, fetches,
                   lastEvent, call, ret>>

\* window.location.href = url: the document is replaced by a new one
Navigate(url, event) ==
    /\ pathname' = LocationOf(url).pathname
    /\ search' = LocationOf(url).search
    /\ pc' = "start"
    /\ nav' = NoNav
    /\ fetches' = <<>>
    /\ doc' = BlankDoc
    /\ lastEvent' = event
    /\ win' = BlankWin
    /\ UNCHANGED <<redirect_path, server, call, ret>>

\* click on the card at position i of the buttons screen, lines 213-217
ClickCard(i) ==
    /\ pc = "done"
    /\ doc.view.kind = "buttons"
    /\ i \in 1..Len(doc.view.cards)
    /\ LET idx == doc.view.cards[i].index
           newPath == WithQuery(<<"/">> \o nav.pagePath \o <<"/", "image", "/">> \o idx,
                                nav.queryString)
       IN  Navigate(newPath, [via |-> "card", index |-> idx])

\* click on the back control of the detail screen, line 248
ClickBack ==
    /\ pc = "done"
    /\ doc.view.kind = "image"
    /\ LET target == BackTarget(doc.view.back)
       IN  IF target.ok
           THEN Navigate(target.value, [via |-> "back", index |-> <<>>])
           ELSE UNCHANGED vars

\* click on the home link of the error view, line 310
ClickHome ==
    /\ pc = "done"
    /\ doc.view.kind = "error"
    /\ Navigate(<<"/">>, [via |-> "home", index |-> <<>>])

Next ==
    \/ DOMContentLoaded
    \/ FetchSettled
    \/ \E i \in 1..Len(doc.view.cards) : ClickCard(i)
    \/ ClickBack
    \/ ClickHome

Spec == Init /\ [][Next]_vars

(***************************************************************************)
(* Claims C1-C6: routing, loading and navigation (specification Spec)      *)
(***************************************************************************)
AllDigits(s) == \A i \in 1..Len(s) : s[i] \in Digits

RECURSIVE StripZeros(_)
StripZeros(s) ==
    IF Len(s) > 1 /\ Head(s) = "0" THEN StripZeros(Tail(s)) ELSE s

\* the pieces of the location between its slashes
Segments == Split(pathname, "/")

\* the location has the shape /{segment}/image/{anything}
ImageShaped ==
    /\ Len(Segments) = 4
    /\ Segments[1] = <<>>
    /\ Segments[2] # <<>>
    /\ Segments[3] = <<"image">>

\* the location is /{segment} or /{segment}/image/{digits}, and the segment
\* is not index.html
Recognized ==
    /\ Len(Segments) \in {2, 4}
    /\ Segments[1] = <<>>
    /\ Segments[2] # <<>>
    /\ Segments[2] # indexHtml
    /\ Len(Segments) = 4 =>
          /\ Segments[3] = <<"image">>
          /\ Segments[4] # <<>>
          /\ AllDigits(Segments[4])

Generic404 ==
    /\ doc.view.kind = "error"
    /\ doc.view.heading = <<"404">>
    /\ doc.title = <<"404">>

\* C1: when the location is not one of the two recognized shapes, or its
\* segment is index.html, init ends in the generic not-found view with
\* document title "404", and the document never issues a fetch.
C1_UnrecognizedIs404 ==
    /\ pc = "start" => fetches = <<>>
    /\ (pc # "start" /\ ~Recognized) =>
          /\ pc = "done"
          /\ fetches = <<>>
          /\ Generic404
          /\ ~doc.threw

C1_Witness ==
    /\ pc = "done"
    /\ pathname = <<"/", "demo", "/", "demo", "/", "demo">>
    /\ Generic404

\* C2: for /{page}/image/{n} with n a run of decimal digits, parseURL gives
\* pagePath = page and imageIndex = the integer n denotes, and init never
\* shows the buttons screen for it, n = 0 included; when the index segment
\* is not a run of digits, parseURL gives no page.
C2_ImageIndexParsed ==
    (pc # "start" /\ ImageShaped /\ Segments[2] # indexHtml) =>
        IF Segments[4] # <<>> /\ AllDigits(Segments[4])
        THEN /\ nav.pagePath = Segments[2]
             /\ IsNum(nav.imageIndex)
             /\ NumVal(nav.imageIndex) >= 0
             /\ DecimalText(NumVal(nav.imageIndex)) = StripZeros(Segments[4])
             /\ doc.view.kind # "buttons"
        ELSE nav.pagePath = NULL

C2_Witness ==
    /\ pc = "done"
    /\ pathname = <<"/", "demo", "/", "image", "/", "0">>
    /\ nav.imageIndex = Num(0)
    /\ doc.view.kind = "image"

\* the host delivers a configuration for the page of the location
ConfigLoaded ==
    /\ nav.pagePath = demo
    /\ server.net /\ server.ok /\ server.parses

\* C3: with a loaded config whose buttons sequence has length k and an
\* image route with index n >= k, init ends in the image-not-found view
\* whose message names n; nothing is thrown out of init, and neither the
\* detail screen nor its scroll handlers are set up.
C3_IndexOutOfRange ==
    (/\ pc = "done" /\ ConfigLoaded /\ server.json.buttons.defined
     /\ IsNum(nav.imageIndex)
     /\ NumVal(nav.imageIndex) >= Len(server.json.buttons.items)) =>
        /\ doc.view.kind = "error"
        /\ doc.view.heading = <<"ImageNotExist">>
        /\ doc.view.message =
              <<"NoButtonAtIndex ">> \o StripZeros(Segments[4]) \o <<" .">>
        /\ doc.title = <<"ImageNotExist">>
        /\ ~doc.threw
        /\ doc.listeners = {} /\ ~doc.loadListener /\ doc.timers = 0

C3_Witness ==
    /\ pc = "done"
    /\ pathname = <<"/", "demo", "/", "image", "/", "1", "0">>
    /\ Len(server.json.buttons.items) = 2
    /\ ConfigLoaded
    /\ doc.view.heading = <<"ImageNotExist">>

\* C4: for a recognized route whose config fetch reports a non-success
\* status or whose body does not parse, init ends in the page-not-found
\* view naming the page, the same for both failures; no screen is
\* rendered and nothing is thrown out of init.
C4_LoadFailureView ==
    (/\ pc = "done" /\ nav.pagePath # NULL
     /\ LET response == ServerResponse(ConfigUrl(nav.pagePath))
        IN  ~response.net \/ ~response.ok \/ ~response.parses) =>
        /\ doc.view = [BlankView EXCEPT
                         !.kind = "error",
                         !.heading = <<"PageNotExist">>,
                         !.message = <<"CannotFindPage: ">> \o Segments[2]]
        /\ doc.title = <<"PageNotExist">>
        /\ ~doc.threw
        /\ doc.listeners = {} /\ ~doc.loadListener /\ doc.timers = 0

C4_Witness ==
    /\ pc = "done"
    /\ nav.pagePath = demo
    /\ server.net /\ server.ok /\ ~server.parses
    /\ doc.view.heading = <<"PageNotExist">>

\* C5: when the configuration is a JSON object without a buttons field,
\* visiting /{page} shows the buttons screen with an empty list and no
\* error view.
C5_NoButtonsRendersEmptyList ==
    (/\ pc = "done" /\ ConfigLoaded /\ nav.imageIndex = NULL
     /\ ~server.json.buttons.defined) =>
        /\ doc.view.kind = "buttons"
        /\ doc.view.cards = <<>>

\* C6: the card with index i leads to /{pagePath}/image/{i} and the back
\* control to /{pagePath}, each followed by the unchanged query ("?" and
\* the query, nothing when it is empty).
C6_NavigationKeepsPageAndQuery ==
    [][/\ (pc = "done" /\ doc.view.kind = "buttons" /\ pc' = "start") =>
            /\ pathname' = <<"/">> \o nav.pagePath \o <<"/", "image", "/">>
                           \o lastEvent'.index
            /\ search' = SearchOf(nav.queryString)
            /\ parseURL(pathname', search') =
                 [pagePath |-> nav.pagePath,
                  imageIndex |-> parseInt(lastEvent'.index),
                  queryString |-> nav.queryString]
       /\ (pc = "done" /\ doc.view.kind = "image" /\ pc' = "start") =>
            /\ pathname' = <<"/">> \o nav.pagePath
            /\ search' = SearchOf(nav.queryString)]_vars

(***************************************************************************)
(* Claim C11: the redirect handoff (specification Spec)                    *)
(***************************************************************************)
\* the step in which init runs handleRedirect and parseURL
InitStarts == pc = "start" /\ pc' # "start"

\* C11: when init starts with a stored path in the redirect_path item, the
\* item is removed and the visible address becomes the stored path before
\* parseURL reads it, so that the navigation state is the parse of the
\* stored path; when the item is absent, the address and the storage stay as
\* they were and nothing is thrown.
C11_RedirectHandoff ==
    [][InitStarts =>
         /\ Truthy(redirect_path) =>
               /\ redirect_path' = NULL
               /\ pathname' \o search' = redirect_path
               /\ nav' = parseURL(pathname', search')
               /\ nav'.queryString = Drop(search', 1)
         /\ redirect_path = NULL =>
               /\ redirect_path' = NULL
               /\ pathname' = pathname
               /\ search' = search
               /\ nav' = parseURL(pathname, search)
               /\ ~doc'.threw]_vars

\* init has consumed the stored path /demo/image/1 and is on its way to the
\* detail screen of button 1
C11_Witness ==
    /\ lastEvent.via = "redirect"
    /\ pc # "start"
    /\ redirect_path = NULL
    /\ pathname = <<"/", "demo", "/", "image", "/", "1">>
    /\ nav.pagePath = demo
    /\ nav.imageIndex = Num(1)

(***************************************************************************)
(* Function specifications: a function of the program applied to inputs    *)
(* drawn from bounded sets.  The navigation state is idle in them.         *)
(***************************************************************************)
Idle ==
    /\ pathname = <<"/">>
    /\ search = <<>>
    /\ redirect_path = NULL
    /\ server = NotFoundResponse
    /\ pc = "function"
    /\ nav = NoNav
    /\ fetches = <<>>
    /\ lastEvent = [via |-> "entry", index |-> <<>>]
    /\ win = BlankWin

navVars == <<pathname, search, redirect_path, server, pc, nav, fetches,
             lastEvent, win>>

(***************************************************************************)
(* replaceQueryPlaceholder (specification SpecSubst)                       *)
(***************************************************************************)
\* parts per generated link template
MaxLinkParts == 2
\* key=value pairs per generated query string
MaxPairs == 2

LinkParts ==
    { <<"{", "a", "}">>, <<"{", "b", "}">>, <<"{", "query", "}">>, <<"x">> }

RECURSIVE Concat(_)
Concat(parts) == IF parts = <<>> THEN <<>> ELSE Head(parts) \o Concat(Tail(parts))

Links == {Concat(parts) : parts \in SeqsUpTo(LinkParts, MaxLinkParts)}

\* raw key=value pairs: plain values, a value with an encoded space, a value
\* with percent-encoded braces, a value with raw braces
RawPairs ==
    { k \o <<"=">> \o v :
        k \in {<<"a">>, <<"b">>},
        v \in { <<"1">>, <<"+", "2">>, <<"%7B", "b", "%7D">>,
                <<"{", "a", "}">> } }
    \cup { <<"query", "=", "1">> }

SubstQueries == {Join(pairs, <<"&">>) : pairs \in SeqsUpTo(RawPairs, MaxPairs)}

InitSubst ==
    /\ Idle
    /\ doc = BlankDoc
    /\ call \in {[fn |-> "subst", url |-> l, queryString |-> q] :
                   l \in Links, q \in SubstQueries}
    /\ ret = NoRet

Substitute ==
    /\ call.fn = "subst"
    /\ ~ret.done
    /\ ret' = [done |-> TRUE,
               value |-> replaceQueryPlaceholder(call.url, call.queryString)]
    /\ UNCHANGED <<navVars, doc, call>>

NextSubst == Substitute

SpecSubst == InitSubst /\ [][NextSubst]_vars

Params == URLSearchParams(call.queryString)
ParamKeys == {Params[i].key : i \in 1..Len(Params)}
Occurrences(k) == {i \in 1..Len(Params) : Params[i].key = k}
Least(S) == CHOOSE i \in S : \A j \in S : i <= j
Greatest(S) == CHOOSE i \in S : \A j \in S : i >= j
FirstValue == [k \in ParamKeys |-> Params[Least(Occurrences(k))].value]
LastValue == [k \in ParamKeys |-> Params[Greatest(Occurrences(k))].value]

HasBrace(s) == \E i \in 1..Len(s) : s[i] \in {"{", "}"}
\* no decoded key or value of the query carries brace syntax
BraceFree ==
    \A i \in 1..Len(Params) : ~HasBrace(Params[i].key) /\ ~HasBrace(Params[i].value)
DistinctKeys == \A k \in ParamKeys : Cardinality(Occurrences(k)) = 1

\* One pass over the template, left to right: {query} becomes the raw
\* query, {k} for a key k becomes valueOf[k], everything else is copied, and
\* inserted text is not looked at again.
RECURSIVE SinglePass(_, _, _)
SinglePass(s, raw, valueOf) ==
    IF s = <<>> THEN <<>>
    ELSE IF StartsWith(s, <<"{", "query", "}">>)
    THEN raw \o SinglePass(Drop(s, 3), raw, valueOf)
    ELSE IF \E k \in DOMAIN valueOf : StartsWith(s, <<"{">> \o k \o <<"}">>)
    THEN LET k == CHOOSE k \in DOMAIN valueOf : StartsWith(s, <<"{">> \o k \o <<"}">>)
         IN  valueOf[k] \o SinglePass(Drop(s, Len(k) + 2), raw, valueOf)
    ELSE <<Head(s)>> \o SinglePass(Tail(s), raw, valueOf)

C8_SinglePassSubstitution ==
    (ret.done /\ DistinctKeys) =>
        ret.value = SinglePass(call.url, call.queryString, FirstValue)

(***************************************************************************)
(* Button colours of the two screens (specification SpecColor)             *)
(***************************************************************************)
\* A colour field is absent, null, empty or a colour; each layer has its own
\* colour, so that the emitted colour tells the layer it came from.
ColourConfigs ==
    { [CfgOne EXCEPT
         !.pageButtonBackgroundColor = pageBg,
         !.imageButtonBackgroundColor = imageBg,
         !.buttonBackgroundColor = anyBg,
         !.pageButtonTextColor = pageFg,
         !.imageButtonTextColor = imageFg,
         !.buttonTextColor = anyFg] :
        pageBg  \in {UNDEFINED, <<>>, <<"pageBg">>},
        imageBg \in {UNDEFINED, <<>>, <<"imageBg">>},
        anyBg   \in {UNDEFINED, <<>>, <<"anyBg">>},
        pageFg  \in {UNDEFINED, <<"pageFg">>},
        imageFg \in {UNDEFINED, <<"imageFg">>},
        anyFg   \in {UNDEFINED, <<"anyFg">>} }

ColourButtons ==
    { [Play EXCEPT !.backgroundColor = bg, !.textColor = fg] :
        bg \in {UNDEFINED, NULL, <<>>, <<"ownBg">>},
        fg \in {UNDEFINED, <<"ownFg">>} }

InitColor ==
    /\ Idle
    /\ doc = BlankDoc
    /\ call \in {[fn |-> "color",
                  config |-> [c EXCEPT !.buttons = Buttons(<<b>>)],
                  button |-> b] :
                   c \in ColourConfigs, b \in ColourButtons}
    /\ ret = NoRet

\* both screens of the page rendered from the configuration
RenderBoth ==
    /\ call.fn = "color"
    /\ ~ret.done
    /\ ret' = [done |-> TRUE,
               list |-> renderButtonsPage(BlankDoc, demo, call.config, <<>>)
                           .view.cards[1].style,
               detail |-> renderImagePage(BlankDoc, demo, call.config, Num(0),
                                          <<>>, TRUE).view.ctaStyle]
    /\ UNCHANGED <<navVars, doc, call>>

NextColor == RenderBoth

SpecColor == InitColor /\ [][NextColor]_vars

\* the --btn-bg colour of a style attribute, NULL when it sets none
EmittedBg(style) ==
    LET i == IndexOf(style, "--btn-bg: ")
    IN  IF i = 0 THEN NULL ELSE <<style[i + 1]>>

\* the first of the layers that holds a colour, NULL when none does
RECURSIVE FirstColour(_)
FirstColour(layers) ==
    IF layers = <<>> THEN NULL
    ELSE IF Head(layers) \notin {UNDEFINED, NULL, <<>>} THEN Head(layers)
    ELSE FirstColour(Tail(layers))

FontUrls ==
    { UNDEFINED, <<>>, <<"https:", "//cdn/font.css">>,
      <<"https:", "//cdn/other.css">>, <<"fonts/local.css">> }

FontFamilies ==
    { UNDEFINED, <<>>, NotoFamily, <<"Inter", ",", " ", "sans-serif">>,
      <<" ", ",", "serif">> }

FontConfigs ==
    { [CfgOne EXCEPT !.fontUrl = u, !.fontFamily = f] :
        u \in FontUrls, f \in FontFamilies }

InitFont ==
    /\ Idle
    /\ doc = BlankDoc
    /\ call = NoCall
    /\ ret = NoRet

\* one more render of a screen into the same document
RenderButtons(config) ==
    /\ doc' = renderButtonsPage(doc, demo, config, <<>>)
    /\ call' = [fn |-> "font", config |-> config, before |-> doc.head]
    /\ UNCHANGED <<navVars, ret>>

RenderImage(config) ==
    /\ \E complete \in BOOLEAN :
          doc' = renderImagePage(doc, demo, config, Num(0), <<>>, complete)
    /\ call' = [fn |-> "font", config |-> config, before |-> doc.head]
    /\ UNCHANGED <<navVars, ret>>

NextFont ==
    \/ \E config \in FontConfigs : RenderButtons(config)
    \/ \E config \in FontConfigs : RenderImage(config)

SpecFont == InitFont /\ [][NextFont]_vars

\* C10: the head never holds more than one custom font link; a render whose
\* resolved font URL is the link's URL changes nothing, one with another URL
\* updates that link in place, and one without a font URL neither adds nor
\* changes a link.
C10_OneFontLink ==
    /\ Len(doc.head) <= 1
    /\ call.fn = "font" =>
          LET fontUrl == getFontUrl(call.config)
          IN  IF fontUrl = NULL THEN doc.head = call.before
              ELSE IF call.before # <<>> /\ call.before[1] = fontUrl
                   THEN doc.head = call.before
              ELSE doc.head = <<fontUrl>>

C10_Witness ==
    /\ call.fn = "font"
    /\ call.before = <<(<<"https:", "//cdn/font.css">>)>>
    /\ call.config.fontUrl = UNDEFINED
    /\ call.config.fontFamily = NotoFamily
    /\ doc.head = <<(<<"https:", "//fonts.googleapis.com/css2?family=",
                       "Noto", "%20", "Sans", "%20", "SC",
                       ":wght@400;500;600;700&display=swap">>)>>

(***************************************************************************)
(* The call-to-action of the detail screen (specification SpecScroll)      *)
(*                                                                         *)
(* The handlers that setupImageScrollBehavior installs, each run as one    *)
(* task of the event loop: the scroll and resize listeners (onScroll), the *)
(* image's load listener, the 50 ms timer and the animation-frame          *)
(* callbacks (updateState).  The window supplies the layout they read.     *)
(***************************************************************************)
\* const threshold = 60, line 272
threshold == 60

\* applyState, lines 274-277: classList.toggle with a force argument
applyState(classes, nearBottom) ==
    IF nearBottom
    THEN (classes \cup {"is-ready"}) \ {"is-compact"}
    ELSE (classes \ {"is-ready"}) \cup {"is-compact"}

\* doc.scrollHeight - (window.scrollY + window.innerHeight), line 282
distanceToBottom(w) == w.scrollHeight - (w.scrollY + w.innerHeight)

\* updateState comparing with < in place of <=
updateStateStrict(d, w) ==
    [d EXCEPT !.view.ctaClasses = applyState(@, distanceToBottom(w) < threshold),
              !.ticking = FALSE]

\* updateState, lines 280-285
updateState(d, w) ==
    [d EXCEPT !.view.ctaClasses = applyState(@, distanceToBottom(w) <= threshold),
              !.ticking = FALSE]

\* onScroll, lines 286-290
onScroll(d) ==
    IF d.ticking THEN d
    ELSE [d EXCEPT !.ticking = TRUE, !.frames = @ + 1]

\* heights of the document element, before and after the image has loaded
ScrollHeights == {100, 160, 161, 300}
\* viewport heights the window is resized between
InnerHeights == {ViewportHeight, 140}
\* scroll offsets the user moves between
ScrollYs == {0, 1, 100, 200}

\* the largest scroll offset of a layout
MaxScrollY(w) ==
    IF w.scrollHeight > w.innerHeight THEN w.scrollHeight - w.innerHeight ELSE 0

\* the detail screens of the demo page, with and without an image, as init
\* leaves them
InitScroll ==
    /\ \E i \in {<<"0">>, <<"1">>}, complete \in BOOLEAN, h \in ScrollHeights :
          /\ pathname = <<"/", "demo", "/", "image", "/">> \o i
          /\ nav = parseURL(pathname, <<>>)
          /\ doc = initAfterFetch(BlankDoc, Response(TRUE, TRUE, TRUE, CfgTwo),
                                  nav, complete)
          /\ win = [BlankWin EXCEPT !.scrollHeight = h,
                                    !.image = imageStatus(doc.view, complete)]
    /\ search = <<>>
    /\ redirect_path = NULL
    /\ server = Response(TRUE, TRUE, TRUE, CfgTwo)
    /\ pc = "done"
    /\ fetches = <<ConfigUrl(demo)>>
    /\ lastEvent = [via |-> "entry", index |-> <<>>]
    /\ call = NoCall
    /\ ret = NoRet

pageVars == <<pathname, search, redirect_path, server, pc, nav, fetches,
              call, ret>>

Handled(name) == lastEvent' = [via |-> name, index |-> <<>>]

\* the viewport scrolls to offset y: a scroll event, line 292
ScrollTo(y) ==
    /\ "scroll" \in doc.listeners
    /\ y # win.scrollY
    /\ y <= MaxScrollY(win)
    /\ win' = [win EXCEPT !.scrollY = y]
    /\ doc' = onScroll(doc)
    /\ Handled("scroll")
    /\ UNCHANGED pageVars

\* the window is resized to height h: a resize event, line 293
Resize(h) ==
    /\ "resize" \in doc.listeners
    /\ h # win.innerHeight
    /\ LET resized == [win EXCEPT !.innerHeight = h]
       IN  win' = [resized EXCEPT
                     !.scrollY = IF @ > MaxScrollY(resized)
                                 THEN MaxScrollY(resized) ELSE @]
    /\ doc' = onScroll(doc)
    /\ Handled("resize")
    /\ UNCHANGED pageVars

\* the image finishes loading and the document grows to height h: the load
\* listener of line 297 starts the 50 ms timer
ImageLoad(h) ==
    /\ win.image = "loading"
    /\ h >= win.scrollHeight
    /\ win' = [win EXCEPT !.image = "complete", !.scrollHeight = h]
    /\ doc' = IF doc.loadListener THEN [doc EXCEPT !.timers = @ + 1] ELSE doc
    /\ Handled("load")
    /\ UNCHANGED pageVars

\* the image fails to load: an error event, which has no listener
ImageError ==
    /\ win.image = "loading"
    /\ win' = [win EXCEPT !.image = "broken"]
    /\ doc' = doc
    /\ Handled("error")
    /\ UNCHANGED pageVars

\* a setTimeout(updateState, 50) of line 297 or 299 comes due
TimerFires ==
    /\ doc.timers > 0
    /\ doc' = updateState([doc EXCEPT !.timers = @ - 1], win)
    /\ Handled("timer")
    /\ UNCHANGED <<pageVars, win>>

\* the next animation frame: every callback requested at line 289 runs
AnimationFrame ==
    /\ doc.frames > 0
    /\ doc' = updateState([doc EXCEPT !.frames = 0], win)
    /\ Handled("frame")
    /\ UNCHANGED <<pageVars, win>>

NextScroll ==
    \/ \E y \in ScrollYs : ScrollTo(y)
    \/ \E h \in InnerHeights : Resize(h)
    \/ \E h \in ScrollHeights : ImageLoad(h)
    \/ ImageError
    \/ TimerFires
    \/ AnimationFrame

SpecScroll == InitScroll /\ [][NextScroll]_vars

\* C12: at most one animation-frame recomputation is pending at any time,
\* and a scroll or resize event that arrives while one is pending requests
\* no further frame.
C12_OneFramePending ==
    /\ [](doc.frames <= 1)
    /\ [][(lastEvent'.via \in {"scroll", "resize"} /\ doc.frames >= 1) =>
            doc'.frames = doc.frames]_vars

(***************************************************************************)
(* SpecScrollFair: the event loop runs a timer that has come due and an    *)
(* animation frame that was requested, and the image's fetch settles, with *)
(* a load or with an error.                                                *)
(***************************************************************************)
ImageSettles == (\E h \in ScrollHeights : ImageLoad(h)) \/ ImageError

SpecScrollFair ==
    /\ SpecScroll
    /\ WF_vars(TimerFires)
    /\ WF_vars(AnimationFrame)
    /\ WF_vars(ImageSettles)

\* C13: with an image that is still loading at setup no timer is started
\* and the timer-driven recomputation never runs while the image has not
\* loaded; without an image, or with a complete one, the timer is started
\* at setup; and in every case a timer-driven recomputation eventually runs.
C13_InitialRecomputation ==
    /\ (win.image = "loading" => doc.timers = 0)
    /\ (win.image \in {"none", "complete"} => doc.timers = 1)
    /\ [][lastEvent'.via = "timer" => win.image \in {"none", "complete"}]_vars
    /\ <>(lastEvent.via = "timer")

\* C14: the call-to-action carries exactly one of the classes is-compact and
\* is-ready in every state; it starts compact, and after every recomputation
\* (timer or animation frame) it is ready exactly when the distance from the
\* viewport bottom to the bottom of the content is at most 60.
C14_CompactOrReady ==
    /\ doc.view.ctaClasses = {"is-compact"}
    /\ [](doc.view.ctaClasses \in {{"is-compact"}, {"is-ready"}})
    /\ [][lastEvent'.via \in {"timer", "frame"} =>
            ("is-ready" \in doc'.view.ctaClasses <=>
               win'.scrollHeight - (win'.scrollY + win'.innerHeight) <= 60)]_vars

\* an animation frame has recomputed the state at a distance of exactly 60
\* and the control is ready
C14_Witness ==
    /\ lastEvent.via = "frame"
    /\ win.scrollY > 0
    /\ win.scrollHeight - (win.scrollY + win.innerHeight) = 60
    /\ doc.view.ctaClasses = {"is-ready"}

====
